---- MODULE Spec2Model ----
(***************************************************************************)
(* Model of posthog/tasks/exports/image_exporter.py: export_image,         *)
(* _export_to_png, _screenshot_asset and get_driver.                       *)
(*                                                                         *)
(* Each invocation of export_image is a process with a program counter.    *)
(* Python's try/except/finally is modelled by Unwind, which maps the       *)
(* position where an exception is raised and the class of the exception to *)
(* the handler that receives it.  Calls into selenium, the file system,    *)
(* the query layer and the storage layer either succeed or raise; the      *)
(* choice is an input.  A forced cancellation is an exception that the     *)
(* surrounding executor raises inside a pipeline stage; whether it derives *)
(* from Exception or only from BaseException is an input of the           *)
(* invocation (deadline).  get_driver, driver.quit and os.remove are       *)
(* atomic: a cancellation does not arrive inside them.                     *)
(*                                                                         *)
(* The two WebDriverWait calls are polling loops: time advances in slices  *)
(* of the timeout until the condition is met or the timeout has expired.   *)
(* log records, per invocation, every call made into the driver, the file  *)
(* system and the collaborators, in order; waited is the time spent in the *)
(* blocking call in progress.                                              *)
(***************************************************************************)
EXTENDS Integers, Sequences, FiniteSets, TLC

\* ---------------------------------------------------------------- bounds
MaxTableK == 6
MaxRectK == 2
MaxScrollK == 1
WaitSlices == 4

\* ------------------------------------------------------ program constants
HEIGHT_OFFSET == 85
INITIAL_HEIGHT == 600
MAX_TABLE_WIDTH == 1800
INSIGHT_WIDTH == 800
DASHBOARD_WIDTH == 1920
WAIT_TIMEOUT == 20
SETTLE_DELAY == 500

Procs == {1, 2}
SessionIds == Procs
PathIds == Procs

\* ------------------------------------------------------------ input sets
NoTable == -1
NoElem == -1
TableWidths == {k * 217 : k \in 0..MaxTableK} \cup {1300}
RectHeights == {300 * k : k \in 1..MaxRectK}
ScrollHeights == {450 * k : k \in 1..MaxScrollK}
Pages == [table : TableWidths \cup {NoTable}, rect : RectHeights \cup {NoElem}, scroll : ScrollHeights]
NoPage == [table |-> NoTable, rect |-> NoElem, scroll |-> 0]
Formats == {"image/png", "application/pdf"}
Assets == [insight : BOOLEAN, dashboard : BOOLEAN, export_format : Formats]

\* ------------------------------------------------------------ exceptions
NoExc == [kind |-> "none", origin |-> "none"]
Err(k, o) == [kind |-> k, origin |-> o]
CancelKinds == {"CancelException", "CancelBaseException"}
IsException(k) == k # "CancelBaseException"

VARIABLES asset, SITE_URL, site, deadline, pc, exc, root, driver, image_path, screenshot_width, wait_for_css_selector, width, height, final_height, image_data, sessions, files, page, spinner_timeout, reports, saved, reach, succeeded, failed, log, waited

vars == <<asset, SITE_URL, site, deadline, pc, exc, root, driver, image_path, screenshot_width, wait_for_css_selector, width, height, final_height, image_data, sessions, files, page, spinner_timeout, reports, saved, reach, succeeded, failed, log, waited>>

inputs == <<asset, SITE_URL, site, deadline>>
target == <<screenshot_width, wait_for_css_selector>>
dims == <<width, height, final_height>>
sinks == <<reports, saved, reach, succeeded, failed>>

\* --------------------------------------------------- control-flow helpers
SaBody == {"acquire", "init_size", "navigate", "wait_marker", "wait_spinner", "spinner_diag", "measure", "resize", "settle", "remeasure", "final_resize", "screenshot"}
SaHandler == {"sa_except", "diag_logs", "diag_shot", "sa_report"}
PngBody == {"site_url", "target", "read", "save", "remove"}
EiBody == {"refresh", "format"}

SaUnwindWithoutFinally(k) == IF IsException(k) THEN "sa_except" ELSE "raised"

SaUnwind(k) == IF IsException(k) THEN "sa_except" ELSE "sa_finally"

PngUnwindWithoutHandler(k) == IF IsException(k) THEN "ei_except" ELSE "raised"

PngUnwind(k) == IF IsException(k) THEN "png_except" ELSE "raised"

EiUnwindWithoutHandler(k) == "raised"

EiUnwind(k) == IF IsException(k) THEN "ei_except" ELSE "raised"

Unwind(p, k) ==
  IF p \in SaBody THEN SaUnwind(k)
  ELSE IF p \in SaHandler THEN "sa_finally"
  ELSE IF p = "sa_finally" \/ p \in PngBody THEN PngUnwind(k)
  ELSE IF p = "png_except" \/ p \in EiBody THEN EiUnwind(k)
  ELSE "raised"

Goto(i, p) ==
  /\ pc' = [pc EXCEPT ![i] = p]
  /\ UNCHANGED <<exc, root>>

Throw(i, e) ==
  /\ pc' = [pc EXCEPT ![i] = Unwind(pc[i], e.kind)]
  /\ exc' = [exc EXCEPT ![i] = e]
  /\ root' = [root EXCEPT ![i] = IF @ = NoExc THEN e ELSE @]

Log(i, ev) == log' = [log EXCEPT ![i] = Append(@, ev)]

Reraise(i) ==
  /\ pc' = [pc EXCEPT ![i] = Unwind(pc[i], exc[i].kind)]
  /\ UNCHANGED <<exc, root>>

\* ------------------------------------------------------------ resources
NoSession == [created |-> FALSE, alive |-> FALSE, quits |-> 0, users |-> {}, w |-> 0, h |-> 0]
NoFile == [exists |-> FALSE, content |-> "none", users |-> {}]

SharedSessionId(ss) ==
  IF \E s \in SessionIds : ss[s].alive
  THEN CHOOSE s \in SessionIds : ss[s].alive
  ELSE CHOOSE s \in SessionIds : ~ss[s].created

NewSessionId(ss) == CHOOSE s \in SessionIds : ~ss[s].created /\ \A t \in SessionIds : t < s => ss[t].created

NewPathId(fs) == CHOOSE p \in PathIds : fs[p].users = {} /\ \A q \in PathIds : q < p => fs[q].users # {}

SetWindowSize(i, w, h) == sessions' = [sessions EXCEPT ![driver[i]].w = w, ![driver[i]].h = h]

WriteFile(i, c) == files' = [files EXCEPT ![image_path[i]].exists = TRUE, ![image_path[i]].content = c]

RemoveFile(i) == files' = [files EXCEPT ![image_path[i]].exists = FALSE, ![image_path[i]].content = "none"]

\* ----------------------------------------------------------- measurement
MeasuredHeightRectOnly(pg) == IF pg.rect # NoElem THEN pg.rect ELSE pg.scroll

MeasuredHeight(pg) == IF pg.rect # NoElem /\ pg.rect > pg.scroll THEN pg.rect ELSE pg.scroll

Max(a, b) == IF a >= b THEN a ELSE b

Min(a, b) == IF a <= b THEN a ELSE b

HintIsInt(t) == t # NoTable /\ (3 * t) % 2 = 0

ProvisionalWidthNoFloor(sw, t) ==
  IF HintIsInt(t)
  THEN Min(MAX_TABLE_WIDTH, IF (3 * t) \div 2 # 0 THEN (3 * t) \div 2 ELSE sw)
  ELSE sw

ProvisionalWidthUncapped(sw, t) ==
  IF HintIsInt(t)
  THEN Max(sw, IF (3 * t) \div 2 # 0 THEN (3 * t) \div 2 ELSE sw)
  ELSE sw

ProvisionalWidth(sw, t) ==
  IF HintIsInt(t)
  THEN Max(sw, Min(MAX_TABLE_WIDTH, IF (3 * t) \div 2 # 0 THEN (3 * t) \div 2 ELSE sw))
  ELSE sw

\* --------------------------------------------------------------- initial
InitCommon ==
  /\ asset \in [Procs -> Assets]
  /\ SITE_URL \in BOOLEAN
  /\ deadline \in [Procs -> {"none"} \cup CancelKinds]
  /\ exc = [i \in Procs |-> NoExc]
  /\ root = [i \in Procs |-> NoExc]
  /\ driver = [i \in Procs |-> 0]
  /\ image_path = [i \in Procs |-> 0]
  /\ screenshot_width = [i \in Procs |-> 0]
  /\ wait_for_css_selector = [i \in Procs |-> "none"]
  /\ width = [i \in Procs |-> 0]
  /\ height = [i \in Procs |-> 0]
  /\ final_height = [i \in Procs |-> 0]
  /\ image_data = [i \in Procs |-> "none"]
  /\ sessions = [s \in SessionIds |-> NoSession]
  /\ files = [p \in PathIds |-> NoFile]
  /\ page = [i \in Procs |-> NoPage]
  /\ spinner_timeout = [i \in Procs |-> FALSE]
  /\ reports = [i \in Procs |-> 0]
  /\ saved = [i \in Procs |-> <<>>]
  /\ reach = [i \in Procs |-> 0]
  /\ succeeded = 0
  /\ failed = 0
  /\ log = [i \in Procs |-> <<>>]
  /\ waited = [i \in Procs |-> 0]

Init ==
  /\ InitCommon
  /\ site = Pages
  /\ pc = [i \in Procs |-> IF i = 1 THEN "start" ELSE "idle"]
  /\ \A i \in Procs : i # 1 => asset[i] = [insight |-> FALSE, dashboard |-> FALSE, export_format |-> "image/png"] /\ deadline[i] = "none"

InitConc ==
  /\ InitCommon
  /\ site = {[table |-> 1300, rect |-> 300, scroll |-> 450]}
  /\ SITE_URL
  /\ pc = [i \in Procs |-> "start"]
  /\ deadline = [i \in Procs |-> "none"]
  /\ asset = [i \in Procs |-> [insight |-> i = 1, dashboard |-> i # 1, export_format |-> "image/png"]]

\* ------------------------------------------------------ injected faults
CancelOf(i) == IF deadline[i] = "none" THEN {} ELSE {deadline[i]}

\* ---------------------------------------------------------- export_image
Start(i) ==
  /\ pc[i] = "start"
  /\ Goto(i, IF asset[i].insight THEN "refresh" ELSE "format")
  /\ UNCHANGED <<inputs, driver, image_path, target, dims, image_data, sessions, files, page, spinner_timeout, sinks>>
  /\ UNCHANGED log
  /\ UNCHANGED waited

Refresh(i) ==
  /\ pc[i] = "refresh"
  /\ \/ Goto(i, "format")
     \/ Throw(i, Err("QueryError", "refresh"))
  /\ UNCHANGED <<inputs, driver, image_path, target, dims, image_data, sessions, files, page, spinner_timeout, sinks>>
  /\ UNCHANGED log
  /\ UNCHANGED waited

FormatSupportedAlways(f) == TRUE

FormatSupported(f) == f = "image/png"

FormatGate(i) ==
  /\ pc[i] = "format"
  /\ IF FormatSupported(asset[i].export_format)
     THEN Goto(i, "site_url")
     ELSE Throw(i, Err("NotImplementedError", "format"))
  /\ UNCHANGED <<inputs, driver, image_path, target, dims, image_data, sessions, files, page, spinner_timeout, sinks>>
  /\ UNCHANGED log
  /\ UNCHANGED waited

EiSuccess(i) ==
  /\ pc[i] = "ei_success"
  /\ succeeded' = succeeded + 1
  /\ Goto(i, "returned")
  /\ UNCHANGED <<inputs, driver, image_path, target, dims, image_data, sessions, files, page, spinner_timeout, reports, saved, reach, failed>>
  /\ UNCHANGED log
  /\ UNCHANGED waited

EiExcept(i) ==
  /\ pc[i] = "ei_except"
  /\ reports' = [reports EXCEPT ![i] = @ + 1]
  /\ failed' = failed + 1
  /\ Goto(i, "raised")
  /\ UNCHANGED <<inputs, driver, image_path, target, dims, image_data, sessions, files, page, spinner_timeout, saved, reach, succeeded>>
  /\ UNCHANGED log
  /\ UNCHANGED waited

\* -------------------------------------------------------- _export_to_png
SiteUrlCheck(i) ==
  /\ pc[i] = "site_url"
  /\ IF SITE_URL
     THEN /\ image_path' = [image_path EXCEPT ![i] = NewPathId(files)]
          /\ files' = [files EXCEPT ![NewPathId(files)].users = @ \cup {i}]
          /\ Log(i, "token")
          /\ Goto(i, "target")
     ELSE /\ Throw(i, Err("Exception", "site_url"))
          /\ UNCHANGED <<image_path, files, log>>
  /\ UNCHANGED <<inputs, driver, target, dims, image_data, sessions, page, spinner_timeout, sinks>>
  /\ UNCHANGED waited

TargetOfDefaultDashboard(a) == IF a.insight THEN "insight" ELSE "dashboard"

TargetOf(a) == IF a.insight THEN "insight" ELSE IF a.dashboard THEN "dashboard" ELSE "missing"

ChooseTarget(i) ==
  /\ pc[i] = "target"
  /\ IF TargetOf(asset[i]) = "insight"
     THEN /\ wait_for_css_selector' = [wait_for_css_selector EXCEPT ![i] = ".ExportedInsight"]
          /\ screenshot_width' = [screenshot_width EXCEPT ![i] = INSIGHT_WIDTH]
          /\ Goto(i, "acquire")
     ELSE IF TargetOf(asset[i]) = "dashboard"
     THEN /\ wait_for_css_selector' = [wait_for_css_selector EXCEPT ![i] = ".InsightCard"]
          /\ screenshot_width' = [screenshot_width EXCEPT ![i] = DASHBOARD_WIDTH]
          /\ Goto(i, "acquire")
     ELSE /\ Throw(i, Err("Exception", "target"))
          /\ UNCHANGED target
  /\ UNCHANGED <<inputs, driver, image_path, dims, image_data, sessions, files, page, spinner_timeout, sinks>>
  /\ UNCHANGED log
  /\ UNCHANGED waited

PngNextRemoveBeforeSave(p) == IF p = "read" THEN "remove" ELSE IF p = "remove" THEN "save" ELSE "ei_success"

PngNext(p) == IF p = "read" THEN "save" ELSE IF p = "save" THEN "remove" ELSE "ei_success"

ReadImage(i) ==
  /\ pc[i] = "read"
  /\ \/ /\ files[image_path[i]].exists
        /\ image_data' = [image_data EXCEPT ![i] = files[image_path[i]].content]
        /\ Goto(i, PngNext("read"))
     \/ /\ ~files[image_path[i]].exists
        /\ Throw(i, Err("OSError", "read"))
        /\ UNCHANGED image_data
     \/ /\ \E k \in CancelOf(i) : Throw(i, Err(k, "read"))
        /\ UNCHANGED image_data
  /\ UNCHANGED <<inputs, driver, image_path, target, dims, sessions, files, page, spinner_timeout, sinks>>
  /\ Log(i, "read")
  /\ UNCHANGED waited

SaveContent(i) ==
  /\ pc[i] = "save"
  /\ \/ /\ saved' = [saved EXCEPT ![i] = Append(@, image_data[i])]
        /\ Goto(i, PngNext("save"))
     \/ /\ \E k \in {"SaveError"} \cup CancelOf(i) : Throw(i, Err(k, "save"))
        /\ UNCHANGED saved
  /\ UNCHANGED <<inputs, driver, image_path, target, dims, image_data, sessions, files, page, spinner_timeout, reports, reach, succeeded, failed>>
  /\ Log(i, "save")
  /\ UNCHANGED waited

RemoveImage(i) ==
  /\ pc[i] = "remove"
  /\ \/ /\ RemoveFile(i)
        /\ Goto(i, PngNext("remove"))
     \/ /\ Throw(i, Err("OSError", "remove"))
        /\ UNCHANGED files
  /\ UNCHANGED <<inputs, driver, image_path, target, dims, image_data, sessions, page, spinner_timeout, sinks>>
  /\ Log(i, "remove")
  /\ UNCHANGED waited

PngExcept(i) ==
  /\ pc[i] = "png_except"
  /\ IF image_path[i] # 0 /\ files[image_path[i]].exists
     THEN /\ Log(i, "cleanup_remove")
          /\ \/ /\ RemoveFile(i)
                /\ reach' = [reach EXCEPT ![i] = @ + 1]
                /\ Reraise(i)
             \/ /\ Throw(i, Err("OSError", "cleanup"))
                /\ UNCHANGED <<files, reach>>
     ELSE /\ reach' = [reach EXCEPT ![i] = @ + 1]
          /\ Reraise(i)
          /\ UNCHANGED <<files, log>>
  /\ UNCHANGED <<inputs, driver, image_path, target, dims, image_data, sessions, page, spinner_timeout, reports, saved, succeeded, failed>>
  /\ UNCHANGED waited

\* ----------------------------------------------------- _screenshot_asset
DriverFaults(i) == {"WebDriverException"} \cup CancelOf(i)

Acquire(i) ==
  /\ pc[i] = "acquire"
  /\ \/ /\ driver' = [driver EXCEPT ![i] = NewSessionId(sessions)]
        /\ sessions' = [sessions EXCEPT ![NewSessionId(sessions)].created = TRUE, ![NewSessionId(sessions)].alive = TRUE, ![NewSessionId(sessions)].users = @ \cup {i}]
        /\ Goto(i, "init_size")
     \/ /\ \E k \in DriverFaults(i) : Throw(i, Err(k, "acquire"))
        /\ UNCHANGED <<driver, sessions>>
  /\ UNCHANGED <<inputs, image_path, target, dims, image_data, files, page, spinner_timeout, sinks>>
  /\ Log(i, "acquire")
  /\ UNCHANGED waited

InitSize(i) ==
  /\ pc[i] = "init_size"
  /\ \/ /\ SetWindowSize(i, screenshot_width[i], INITIAL_HEIGHT)
        /\ Goto(i, "navigate")
     \/ /\ \E k \in DriverFaults(i) : Throw(i, Err(k, "init_size"))
        /\ UNCHANGED sessions
  /\ UNCHANGED <<inputs, driver, image_path, target, dims, image_data, files, page, spinner_timeout, sinks>>
  /\ Log(i, "init_size")
  /\ UNCHANGED waited

Navigate(i) ==
  /\ pc[i] = "navigate"
  /\ \/ /\ \E pg \in site : page' = [page EXCEPT ![i] = pg]
        /\ Goto(i, "wait_marker")
     \/ /\ \E k \in DriverFaults(i) : Throw(i, Err(k, "navigate"))
        /\ UNCHANGED page
  /\ UNCHANGED <<inputs, driver, image_path, target, dims, image_data, sessions, files, spinner_timeout, sinks>>
  /\ Log(i, "navigate")
  /\ UNCHANGED waited

Slice == WAIT_TIMEOUT \div WaitSlices

WaitExpiredNever(e) == FALSE

WaitExpired(e) == e >= WAIT_TIMEOUT

Poll(i) ==
  /\ ~WaitExpired(waited[i])
  /\ waited' = [waited EXCEPT ![i] = (@ + Slice) % (WAIT_TIMEOUT + Slice)]
  /\ Goto(i, pc[i])
  /\ UNCHANGED log

EndWait(i, ev) ==
  /\ waited' = [waited EXCEPT ![i] = 0]
  /\ Log(i, ev)

WaitMarker(i) ==
  /\ pc[i] = "wait_marker"
  /\ \/ /\ Goto(i, "wait_spinner")
        /\ EndWait(i, "wait_marker")
     \/ Poll(i)
     \/ /\ WaitExpired(waited[i])
        /\ Throw(i, Err("TimeoutException", "wait_marker"))
        /\ EndWait(i, "wait_marker")
     \/ /\ \E k \in DriverFaults(i) : Throw(i, Err(k, "wait_marker"))
        /\ EndWait(i, "wait_marker")
  /\ UNCHANGED <<inputs, driver, image_path, target, dims, image_data, sessions, files, page, spinner_timeout, sinks>>

SpinnerOutcomeFatal(k) == "raised"

SpinnerOutcome(k) == IF k = "TimeoutException" THEN "absorbed" ELSE "raised"

WaitSpinner(i) ==
  /\ pc[i] = "wait_spinner"
  /\ \/ /\ Goto(i, "measure")
        /\ EndWait(i, "wait_spinner")
        /\ UNCHANGED spinner_timeout
     \/ /\ Poll(i)
        /\ UNCHANGED spinner_timeout
     \/ /\ \/ WaitExpired(waited[i]) /\ \E k \in {"TimeoutException"} :
                IF SpinnerOutcome(k) = "absorbed"
                THEN /\ spinner_timeout' = [spinner_timeout EXCEPT ![i] = TRUE]
                     /\ Goto(i, "spinner_diag")
                ELSE /\ Throw(i, Err(k, "wait_spinner"))
                     /\ UNCHANGED spinner_timeout
           \/ \E k \in DriverFaults(i) :
                /\ Throw(i, Err(k, "wait_spinner"))
                /\ UNCHANGED spinner_timeout
        /\ EndWait(i, "wait_spinner")
  /\ UNCHANGED <<inputs, driver, image_path, target, dims, image_data, sessions, files, page, sinks>>

SpinnerDiag(i) ==
  /\ pc[i] = "spinner_diag"
  /\ \/ /\ WriteFile(i, "diag")
        /\ reports' = [reports EXCEPT ![i] = @ + 1]
        /\ Goto(i, "measure")
     \/ /\ \E k \in DriverFaults(i) :
             IF IsException(k)
             THEN /\ reports' = [reports EXCEPT ![i] = @ + 1]
                  /\ Goto(i, "measure")
             ELSE /\ Throw(i, Err(k, "spinner_diag"))
                  /\ UNCHANGED reports
        /\ UNCHANGED files
  /\ UNCHANGED <<inputs, driver, image_path, target, dims, image_data, sessions, page, spinner_timeout, saved, reach, succeeded, failed>>
  /\ Log(i, "spinner_shot")
  /\ UNCHANGED waited

Measure(i) ==
  /\ pc[i] = "measure"
  /\ \/ /\ height' = [height EXCEPT ![i] = MeasuredHeight(page[i])]
        /\ width' = [width EXCEPT ![i] = ProvisionalWidth(screenshot_width[i], page[i].table)]
        /\ Goto(i, "resize")
     \/ /\ \E k \in DriverFaults(i) : Throw(i, Err(k, "measure"))
        /\ UNCHANGED <<width, height>>
  /\ UNCHANGED <<inputs, driver, image_path, target, final_height, image_data, sessions, files, page, spinner_timeout, sinks>>
  /\ Log(i, "measure")
  /\ UNCHANGED waited

Resize(i) ==
  /\ pc[i] = "resize"
  /\ \/ /\ SetWindowSize(i, width[i], height[i] + HEIGHT_OFFSET)
        /\ Goto(i, "settle")
     \/ /\ \E k \in DriverFaults(i) : Throw(i, Err(k, "resize"))
        /\ UNCHANGED sessions
  /\ UNCHANGED <<inputs, driver, image_path, target, dims, image_data, files, page, spinner_timeout, sinks>>
  /\ Log(i, "resize")
  /\ UNCHANGED waited

Settle(i) ==
  /\ pc[i] = "settle"
  /\ \/ /\ \E pg \in site :
             page' = [page EXCEPT ![i].rect = IF @ = NoElem THEN NoElem ELSE pg.rect, ![i].scroll = pg.scroll]
        /\ waited' = [waited EXCEPT ![i] = SETTLE_DELAY]
        /\ Goto(i, "remeasure")
     \/ /\ \E k \in DriverFaults(i) : Throw(i, Err(k, "settle"))
        /\ UNCHANGED <<page, waited>>
  /\ UNCHANGED <<inputs, driver, image_path, target, dims, image_data, sessions, files, spinner_timeout, sinks>>
  /\ Log(i, "settle")

Remeasure(i) ==
  /\ pc[i] = "remeasure"
  /\ \/ /\ final_height' = [final_height EXCEPT ![i] = MeasuredHeight(page[i])]
        /\ Goto(i, "final_resize")
     \/ /\ \E k \in DriverFaults(i) : Throw(i, Err(k, "remeasure"))
        /\ UNCHANGED final_height
  /\ UNCHANGED <<inputs, driver, image_path, target, width, height, image_data, sessions, files, page, spinner_timeout, sinks>>
  /\ Log(i, "remeasure")
  /\ waited' = [waited EXCEPT ![i] = 0]

FinalResizeHeightFromFirstMeasure(h, fh) == h + HEIGHT_OFFSET

FinalResizeHeight(h, fh) == fh + HEIGHT_OFFSET

FinalResize(i) ==
  /\ pc[i] = "final_resize"
  /\ \/ /\ SetWindowSize(i, width[i], FinalResizeHeight(height[i], final_height[i]))
        /\ Goto(i, "screenshot")
     \/ /\ \E k \in DriverFaults(i) : Throw(i, Err(k, "final_resize"))
        /\ UNCHANGED sessions
  /\ UNCHANGED <<inputs, driver, image_path, target, dims, image_data, files, page, spinner_timeout, sinks>>
  /\ Log(i, "final_resize")
  /\ UNCHANGED waited

Screenshot(i) ==
  /\ pc[i] = "screenshot"
  /\ \/ /\ WriteFile(i, "final")
        /\ Goto(i, "sa_finally")
     \/ /\ UNCHANGED files
        /\ Goto(i, "sa_finally")
     \/ /\ \E k \in DriverFaults(i) : Throw(i, Err(k, "screenshot"))
        /\ UNCHANGED files
  /\ UNCHANGED <<inputs, driver, image_path, target, dims, image_data, sessions, page, spinner_timeout, sinks>>
  /\ Log(i, "screenshot")
  /\ UNCHANGED waited

SaExcept(i) ==
  /\ pc[i] = "sa_except"
  /\ Goto(i, IF driver[i] # 0 THEN "diag_logs" ELSE "sa_report")
  /\ UNCHANGED <<inputs, driver, image_path, target, dims, image_data, sessions, files, page, spinner_timeout, sinks>>
  /\ UNCHANGED log
  /\ UNCHANGED waited

AfterDiagLogsAbortOnFailure(ok) == IF ok THEN "diag_shot" ELSE "sa_report"

AfterDiagLogs(ok) == "diag_shot"

DiagLogs(i) ==
  /\ pc[i] = "diag_logs"
  /\ \/ Goto(i, AfterDiagLogs(TRUE))
     \/ \E k \in DriverFaults(i) :
          IF IsException(k) THEN Goto(i, AfterDiagLogs(FALSE)) ELSE Throw(i, Err(k, "diag_logs"))
  /\ UNCHANGED <<inputs, driver, image_path, target, dims, image_data, sessions, files, page, spinner_timeout, sinks>>
  /\ Log(i, "diag_logs")
  /\ UNCHANGED waited

DiagShot(i) ==
  /\ pc[i] = "diag_shot"
  /\ \/ /\ WriteFile(i, "diag")
        /\ Goto(i, "sa_report")
     \/ /\ \E k \in DriverFaults(i) :
             IF IsException(k) THEN Goto(i, "sa_report") ELSE Throw(i, Err(k, "diag_shot"))
        /\ UNCHANGED files
  /\ UNCHANGED <<inputs, driver, image_path, target, dims, image_data, sessions, page, spinner_timeout, sinks>>
  /\ Log(i, "diag_shot")
  /\ UNCHANGED waited

SaReport(i) ==
  /\ pc[i] = "sa_report"
  /\ reports' = [reports EXCEPT ![i] = @ + 1]
  /\ Goto(i, "sa_finally")
  /\ UNCHANGED <<inputs, driver, image_path, target, dims, image_data, sessions, files, page, spinner_timeout, saved, reach, succeeded, failed>>
  /\ UNCHANGED log
  /\ UNCHANGED waited

AfterFinally(i) ==
  IF exc[i] = NoExc THEN Goto(i, "read") ELSE Reraise(i)

QuitGuard(d) == d # 0

SaFinally(i) ==
  /\ pc[i] = "sa_finally"
  /\ IF QuitGuard(driver[i])
     THEN \/ /\ sessions' = [sessions EXCEPT ![driver[i]].quits = @ + 1, ![driver[i]].alive = FALSE]
             /\ AfterFinally(i)
          \/ /\ \E a \in BOOLEAN : sessions' = [sessions EXCEPT ![driver[i]].quits = @ + 1, ![driver[i]].alive = a]
             /\ Throw(i, Err("WebDriverException", "quit"))
     ELSE /\ UNCHANGED sessions
          /\ AfterFinally(i)
  /\ UNCHANGED <<inputs, driver, image_path, target, dims, image_data, files, page, spinner_timeout, sinks>>
  /\ log' = [log EXCEPT ![i] = IF QuitGuard(driver[i]) THEN Append(@, "quit") ELSE @]
  /\ UNCHANGED waited

\* ------------------------------------------------------------------ next
Step(i) ==
  \/ Start(i) \/ Refresh(i) \/ FormatGate(i) \/ EiSuccess(i) \/ EiExcept(i)
  \/ SiteUrlCheck(i) \/ ChooseTarget(i) \/ ReadImage(i) \/ SaveContent(i) \/ RemoveImage(i) \/ PngExcept(i)
  \/ Acquire(i) \/ InitSize(i) \/ Navigate(i) \/ WaitMarker(i) \/ WaitSpinner(i) \/ SpinnerDiag(i)
  \/ Measure(i) \/ Resize(i) \/ Settle(i) \/ Remeasure(i) \/ FinalResize(i) \/ Screenshot(i)
  \/ SaExcept(i) \/ DiagLogs(i) \/ DiagShot(i) \/ SaReport(i) \/ SaFinally(i)

Next == \E i \in Procs : Step(i)

Spec == Init /\ [][Next]_vars

SpecConc == InitConc /\ [][Next]_vars

InitLive ==
  /\ InitCommon
  /\ site = {[table |-> 1300, rect |-> 300, scroll |-> 450], [table |-> NoTable, rect |-> NoElem, scroll |-> 450]}
  /\ pc = [i \in Procs |-> IF i = 1 THEN "start" ELSE "idle"]
  /\ \A i \in Procs : i # 1 => asset[i] = [insight |-> FALSE, dashboard |-> FALSE, export_format |-> "image/png"] /\ deadline[i] = "none"

SpecLive == InitLive /\ [][Next]_vars /\ \A i \in Procs : WF_vars(Step(i))

Done(i) == pc[i] \in {"returned", "raised"}

TypeOK ==
  /\ pc \in [Procs -> SaBody \cup SaHandler \cup PngBody \cup EiBody \cup {"idle", "start", "sa_finally", "png_except", "ei_success", "ei_except", "returned", "raised"}]
  /\ driver \in [Procs -> SessionIds \cup {0}]
  /\ image_path \in [Procs -> PathIds \cup {0}]

\* ------------------------------------------------------------ properties
AfterScreenshotAsset == {"read", "save", "remove", "png_except", "ei_success", "ei_except", "returned", "raised"}

FatalStages == {"acquire", "init_size", "navigate", "wait_marker", "measure", "resize", "settle", "remeasure", "final_resize", "screenshot"}

SessionsOf(i) == {s \in SessionIds : i \in sessions[s].users}

\* C1: on every path of an export (success, navigation timeout, capture
\* error, driver failure, save_content failure, forced cancellation at any
\* stage) the temporary file at image_path does not exist once the call has
\* returned or raised.  Runs in which os.remove itself failed during cleanup
\* are not among the paths the claim lists and are excluded.
C1_TempFileAbsentOnExit ==
  \A i \in Procs :
    (Done(i) /\ image_path[i] # 0 /\ exc[i].origin # "cleanup") => ~files[image_path[i]].exists

\* C2: a session acquired by get_driver is quit exactly once before
\* _screenshot_asset exits, on the normal path, on a failure of any later
\* stage and on forced cancellation; it is never quit twice at any time; and
\* when acquisition fails no session exists and quit is never called.
C2_QuitExactlyOnce ==
  \A i \in Procs :
    /\ \A s \in SessionsOf(i) : sessions[s].quits <= 1
    /\ pc[i] \in AfterScreenshotAsset =>
         /\ driver[i] # 0 => sessions[driver[i]].quits = 1
         /\ driver[i] = 0 => SessionsOf(i) = {}

C2_Witness ==
  \E i \in Procs :
    /\ pc[i] = "raised"
    /\ exc[i].kind = "CancelBaseException"
    /\ driver[i] # 0
    /\ sessions[driver[i]].quits = 1

\* C3: when a stage other than the spinner wait fails, the error that
\* reaches the caller of export_image is the error that stage raised,
\* whatever the diagnostics, the temp-file cleanup and the session teardown
\* do on the error path.
C3_ErrorUnchanged ==
  \A i \in Procs :
    (pc[i] = "raised" /\ deadline[i] = "none" /\ root[i].origin \in FatalStages) => exc[i] = root[i]

\* C4: a TimeoutException of the spinner-absence wait is never the error in
\* flight; while the diagnostic screenshot is attempted no error is in
\* flight; and a run that absorbed the timeout and met no later failure
\* returns normally with exactly one image handed to save_content.
C4_SpinnerTimeoutAbsorbed ==
  \A i \in Procs :
    /\ ~(exc[i].kind = "TimeoutException" /\ exc[i].origin = "wait_spinner")
    /\ pc[i] = "spinner_diag" => exc[i] = NoExc /\ spinner_timeout[i]
    /\ (spinner_timeout[i] /\ Done(i) /\ root[i] = NoExc) => (pc[i] = "returned" /\ Len(saved[i]) = 1)

C4_Witness ==
  \E i \in Procs :
    /\ spinner_timeout[i]
    /\ pc[i] = "returned"
    /\ Len(saved[i]) = 1
    /\ ~files[image_path[i]].exists

\* C5 as stated: every invocation with an export_format other than
\* "image/png" fails with the unsupported-format error, and neither a
\* browser session nor a temp path is ever allocated for it.
C5_UnsupportedFormatErrorAlways ==
  \A i \in Procs :
    asset[i].export_format # "image/png" =>
      /\ driver[i] = 0 /\ image_path[i] = 0 /\ SessionsOf(i) = {}
      /\ Done(i) => (pc[i] = "raised" /\ exc[i].kind = "NotImplementedError")

\* C5 amended: an invocation with an export_format other than "image/png"
\* always raises and never allocates a browser session or a temp path; the
\* error is the unsupported-format error unless the request has an insight
\* and the insight refresh that precedes the format check raised, in which
\* case that refresh error is the one raised.
C5_FormatGate ==
  \A i \in Procs :
    asset[i].export_format # "image/png" =>
      /\ driver[i] = 0 /\ image_path[i] = 0 /\ SessionsOf(i) = {}
      /\ pc[i] \notin SaBody \cup SaHandler \cup PngBody \cup {"sa_finally", "png_except", "ei_success", "returned"}
      /\ Done(i) => \/ exc[i] = Err("NotImplementedError", "format")
                    \/ asset[i].insight /\ exc[i] = Err("QueryError", "refresh")

C5_Witness ==
  \E i \in Procs :
    /\ pc[i] = "raised"
    /\ asset[i].export_format = "application/pdf"
    /\ exc[i].kind = "NotImplementedError"
    /\ SessionsOf(i) = {}

\* C6 as stated: the width applied by the final set_window_size is at least
\* the requested width and at most 1800, for insights and dashboards alike.
C6_FinalWidthAtMost1800 ==
  \A i \in Procs :
    pc[i] = "screenshot" =>
      /\ sessions[driver[i]].w >= screenshot_width[i]
      /\ sessions[driver[i]].w <= MAX_TABLE_WIDTH

\* C6 amended: the width applied by the final set_window_size is at least
\* the requested width and at most the larger of the requested width and
\* 1800: between 800 and 1800 for an insight, exactly 1920 for a dashboard.
C6_FinalWidthBounds ==
  \A i \in Procs :
    pc[i] = "screenshot" =>
      /\ sessions[driver[i]].w >= screenshot_width[i]
      /\ sessions[driver[i]].w <= Max(screenshot_width[i], MAX_TABLE_WIDTH)
      /\ screenshot_width[i] = DASHBOARD_WIDTH => sessions[driver[i]].w = DASHBOARD_WIDTH

C6_Witness ==
  \E i \in Procs :
    /\ pc[i] = "screenshot"
    /\ screenshot_width[i] = INSIGHT_WIDTH
    /\ page[i].table = 1300
    /\ sessions[driver[i]].w = MAX_TABLE_WIDTH

\* C7: under any interleaving of concurrent invocations every session and
\* every temp path is used by one invocation only, and two invocations never
\* hold the same session or the same path.
C7_Exclusive ==
  /\ \A s \in SessionIds : Cardinality(sessions[s].users) <= 1
  /\ \A p \in PathIds : Cardinality(files[p].users) <= 1
  /\ \A i, j \in Procs :
       i # j =>
         /\ (driver[i] # 0 /\ driver[j] # 0) => driver[i] # driver[j]
         /\ (image_path[i] # 0 /\ image_path[j] # 0) => image_path[i] # image_path[j]
  /\ \A i \in Procs : driver[i] # 0 => sessions[driver[i]].users = {i}
  /\ \A i \in Procs : image_path[i] # 0 => files[image_path[i]].users = {i}

C7_Witness ==
  /\ \A i \in Procs : driver[i] # 0 /\ sessions[driver[i]].alive /\ pc[i] \in SaBody
  /\ \E i \in Procs : files[image_path[i]].exists

\* C8: a failure of driver.quit() never propagates out of
\* _screenshot_asset: it is never the error in flight.
C8_QuitFailureSwallowed ==
  \A i \in Procs : exc[i].origin # "quit"

\* C9: a failed export whose root cause was raised inside the pipeline is
\* forwarded to capture_exception exactly once across _screenshot_asset,
\* _export_to_png and export_image.
C9_ReportedOnce ==
  \A i \in Procs :
    (pc[i] = "raised" /\ ~spinner_timeout[i] /\ root[i].origin \in SaBody \cup PngBody /\ IsException(exc[i].kind)) => reports[i] = 1

\* C10: a png export request with neither insight nor dashboard never
\* reaches get_driver, never navigates and never has a temp file written;
\* it ends by raising the bare Exception of _export_to_png: the missing-id
\* error when SITE_URL is set, the SITE_URL error otherwise.
C10_MissingTargetFailsEarly ==
  \A i \in Procs :
    (~asset[i].insight /\ ~asset[i].dashboard /\ asset[i].export_format = "image/png") =>
      /\ driver[i] = 0 /\ SessionsOf(i) = {}
      /\ pc[i] \notin SaBody \cup SaHandler \cup {"sa_finally"}
      /\ page[i] = NoPage
      /\ image_path[i] # 0 => ~files[image_path[i]].exists
      /\ Done(i) => /\ pc[i] = "raised"
                    /\ exc[i] = Err("Exception", IF SITE_URL THEN "target" ELSE "site_url")

C10_Witness ==
  \E i \in Procs :
    /\ ~asset[i].insight /\ ~asset[i].dashboard
    /\ pc[i] = "raised"
    /\ exc[i] = Err("Exception", "target")
    /\ SessionsOf(i) = {}

Count(sq, ev) == Cardinality({k \in 1..Len(sq) : sq[k] = ev})

AfterSaHandler == {"sa_report", "sa_finally", "png_except", "ei_except", "raised"}

\* C11: when a stage fails after a session was acquired, the console-log
\* retrieval and the diagnostic screenshot have each been attempted exactly
\* once by the time the error is re-raised, whether or not the other one
\* failed (runs cancelled by a BaseException, which is not a failure of a
\* stage or of a diagnostic action, are set aside); without a session
\* neither is attempted; and the file the diagnostic screenshot wrote is
\* absent once the export has raised, unless os.remove itself failed.
C11_DiagnosticsAttempted ==
  \A i \in Procs :
    /\ (pc[i] = "sa_report" /\ driver[i] # 0) =>
         (Count(log[i], "diag_logs") = 1 /\ Count(log[i], "diag_shot") = 1)
    /\ (pc[i] \in AfterSaHandler /\ driver[i] # 0 /\ root[i].origin \in SaBody /\ deadline[i] # "CancelBaseException") =>
         (Count(log[i], "diag_logs") = 1 /\ Count(log[i], "diag_shot") = 1)
    /\ driver[i] = 0 => (Count(log[i], "diag_logs") = 0 /\ Count(log[i], "diag_shot") = 0)
    /\ (Done(i) /\ Count(log[i], "diag_shot") = 1 /\ deadline[i] # "CancelBaseException" /\ exc[i].origin # "cleanup") => ~files[image_path[i]].exists

C11_Witness ==
  \E i \in Procs :
    /\ pc[i] = "raised"
    /\ exc[i] = Err("TimeoutException", "wait_marker")
    /\ Count(log[i], "diag_logs") = 1
    /\ Count(log[i], "diag_shot") = 1
    /\ Count(log[i], "cleanup_remove") = 1
    /\ ~files[image_path[i]].exists

\* C12 as stated: for a dashboard export whose page has a table of
\* offsetWidth 1300 the width applied by the final set_window_size is 1800.
C12_DashboardTableWidth1800 ==
  \A i \in Procs :
    (pc[i] = "screenshot" /\ asset[i].dashboard /\ ~asset[i].insight /\ page[i].table = 1300) =>
      sessions[driver[i]].w = MAX_TABLE_WIDTH

\* C12 amended: for a dashboard export (requested width 1920) whose page
\* has a table of offsetWidth 1300 the width hint is 1950 and its clamp is
\* 1800, but the requested width is a floor: the provisional width and the
\* width applied by the final set_window_size are both 1920.
C12_DashboardTableWidth1920 ==
  \A i \in Procs :
    (pc[i] = "screenshot" /\ asset[i].dashboard /\ ~asset[i].insight /\ page[i].table = 1300) =>
      /\ screenshot_width[i] = 1920
      /\ Min(MAX_TABLE_WIDTH, (3 * page[i].table) \div 2) = 1800
      /\ width[i] = 1920
      /\ sessions[driver[i]].w = 1920

C12_Witness ==
  \E i \in Procs :
    /\ pc[i] = "screenshot"
    /\ asset[i].dashboard /\ ~asset[i].insight
    /\ page[i].table = 1300
    /\ sessions[driver[i]].w = DASHBOARD_WIDTH

InsightWithContainerNoTable(i) ==
  /\ pc[i] = "screenshot"
  /\ asset[i].insight
  /\ page[i].rect # NoElem
  /\ page[i].table = NoTable

\* C13 as stated: for an insight export with the visualization container
\* present and no table, the marker is .ExportedInsight, the final width is
\* 800 and the final height is the container's rect height plus 85, for
\* every combination of rect height and scroll height.
C13_HeightIsRectPlusOffset ==
  \A i \in Procs :
    InsightWithContainerNoTable(i) =>
      /\ wait_for_css_selector[i] = ".ExportedInsight"
      /\ sessions[driver[i]].w = 800
      /\ sessions[driver[i]].h = page[i].rect + 85

\* C13 amended: for an insight export with the visualization container
\* present and no table, the marker is .ExportedInsight, the final width is
\* 800 and the final height is the greater of the container's rect height
\* and the document scroll height, as measured after the settle delay,
\* plus 85.
C13_HeightIsMaxPlusOffset ==
  \A i \in Procs :
    InsightWithContainerNoTable(i) =>
      /\ wait_for_css_selector[i] = ".ExportedInsight"
      /\ sessions[driver[i]].w = 800
      /\ sessions[driver[i]].h = Max(page[i].rect, page[i].scroll) + 85

C13_Witness ==
  \E i \in Procs :
    /\ InsightWithContainerNoTable(i)
    /\ page[i].rect = 300
    /\ page[i].scroll = 450
    /\ sessions[driver[i]].w = 800
    /\ sessions[driver[i]].h = 535

IsPngOp(ev) == ev \in {"read", "save", "remove"}

PngOps(i) == SelectSeq(log[i], IsPngOp)

FullPipeline == <<"acquire", "init_size", "navigate", "wait_marker", "wait_spinner", "measure", "resize", "settle", "remeasure", "final_resize", "screenshot">>

IsStage(ev) == \E k \in 1..Len(FullPipeline) : FullPipeline[k] = ev

StageOps(i) == SelectSeq(log[i], IsStage)

\* C15: the stages of _screenshot_asset always run in the order acquire,
\* initial size, navigate, marker wait, spinner wait, measure, provisional
\* resize, settle, re-measure, final resize, screenshot, each at most once
\* and none skipped, so a run that reaches the capture has run all of them;
\* the initial viewport is (requested width, 600), the provisional one is
\* (width, first height + 85), the final one has the same width and the
\* re-measured height + 85; and the last stage run is the one that failed.
C15_StageOrder ==
  \A i \in Procs :
    /\ \E n \in 0..Len(FullPipeline) : StageOps(i) = SubSeq(FullPipeline, 1, n)
    /\ Count(log[i], "screenshot") = 1 => StageOps(i) = FullPipeline
    /\ pc[i] = "navigate" => (sessions[driver[i]].w = screenshot_width[i] /\ sessions[driver[i]].h = 600)
    /\ pc[i] \in {"settle", "remeasure", "final_resize"} =>
         (sessions[driver[i]].w = width[i] /\ sessions[driver[i]].h = height[i] + 85)
    /\ pc[i] = "screenshot" =>
         /\ sessions[driver[i]].w = width[i]
         /\ sessions[driver[i]].h = final_height[i] + 85
         /\ final_height[i] = Max(IF page[i].rect = NoElem THEN 0 ELSE page[i].rect, page[i].scroll)
    /\ (root[i].origin # "none" /\ IsStage(root[i].origin)) =>
         (StageOps(i) # <<>> /\ StageOps(i)[Len(StageOps(i))] = root[i].origin)

C15_Witness ==
  \E i \in Procs :
    /\ pc[i] = "sa_finally"
    /\ exc[i] = NoExc
    /\ StageOps(i) = FullPipeline
    /\ height[i] = 600
    /\ final_height[i] = 450
    /\ sessions[driver[i]].h = 535

\* C16: once the page has been measured, the provisional width equals
\* max(requested_width, min(1800, 1.5 * offsetWidth)) whenever a table is
\* present, whether or not 1.5 * offsetWidth is a whole number, and equals
\* requested_width when there is no table.  Both sides are doubled to stay
\* in the integers.
C16_ProvisionalWidthFormula ==
  \A i \in Procs :
    pc[i] = "resize" =>
      IF page[i].table # NoTable
      THEN 2 * width[i] = Max(2 * screenshot_width[i], Min(2 * 1800, 3 * page[i].table))
      ELSE width[i] = screenshot_width[i]

\* C17: with SITE_URL unset no temp path is allocated, no access token is
\* generated, get_driver is never called and no file removal is attempted;
\* an invocation that reaches _export_to_png raises the SITE_URL error after
\* log_error_if_site_url_not_reachable has been called exactly once.
C17_SiteUrlUnset ==
  \A i \in Procs :
    ~SITE_URL =>
      /\ image_path[i] = 0 /\ driver[i] = 0
      /\ Count(log[i], "token") = 0 /\ Count(log[i], "acquire") = 0
      /\ Count(log[i], "cleanup_remove") = 0 /\ Count(log[i], "remove") = 0
      /\ reach[i] <= 1
      /\ (pc[i] \in {"ei_except", "raised"} /\ root[i].origin = "site_url") =>
           (reach[i] = 1 /\ exc[i] = Err("Exception", "site_url"))
      /\ (Done(i) /\ asset[i].export_format = "image/png" /\ root[i].origin # "refresh") =>
           (pc[i] = "raised" /\ root[i].origin = "site_url")

C17_Witness ==
  \E i \in Procs :
    /\ ~SITE_URL
    /\ pc[i] = "raised"
    /\ exc[i] = Err("Exception", "site_url")
    /\ reach[i] = 1
    /\ log[i] = <<>>

C19_OneCounterPerOutcome ==
  /\ succeeded = Cardinality({i \in Procs : pc[i] = "returned"})
  /\ failed = Cardinality({i \in Procs : pc[i] = "raised"})

\* C19 amended: the succeeded counter counts exactly the invocations that
\* returned, among them those that absorbed a spinner timeout; the failed
\* counter counts exactly the invocations that raised an exception deriving
\* from Exception; an invocation ended by an exception that derives only
\* from BaseException increments neither counter.
C19_CountersMatchOutcomes ==
  /\ succeeded = Cardinality({i \in Procs : pc[i] = "returned"})
  /\ failed = Cardinality({i \in Procs : pc[i] = "raised" /\ exc[i].kind # "CancelBaseException"})
  /\ \A i \in Procs : pc[i] = "returned" => exc[i] = NoExc
  /\ \A i \in Procs : pc[i] = "raised" => exc[i] # NoExc

C19_Witness ==
  \E i \in Procs :
    /\ pc[i] = "returned"
    /\ spinner_timeout[i]
    /\ succeeded = 1
    /\ failed = 0

\* C20: whatever save_content receives is the content written by the final
\* screenshot of the same invocation, never the content of the diagnostic
\* screenshot taken after a spinner timeout.
C20_SavedIsFinalScreenshot ==
  \A i \in Procs : \A k \in 1..Len(saved[i]) : saved[i][k] = "final"

====
